---- MODULE Spec2Model ----
(***************************************************************************)
(* The real-time voice relay of server/routes.ts: the WebSocket server on  *)
(* /ws/transcription, the per-chunk pipeline (Deepgram -> session/agent    *)
(* lookup -> OpenAI completion -> ElevenLabs synthesis -> session update), *)
(* the conversationContexts map, the close handler and POST                *)
(* /api/voice-chat, over the DatabaseStorage of server/storage.ts.         *)
(*                                                                         *)
(* A chunk handler is an async function: it runs atomically between two    *)
(* awaits, and the handlers of all chunks and connections interleave at    *)
(* their awaits.  Each action below is one such atomic stretch.  Arrays    *)
(* are JavaScript objects: the map holds references, so the model keeps a  *)
(* heap of arrays and the map and the handlers hold references into it.    *)
(***************************************************************************)
EXTENDS Integers, Sequences, FiniteSets, TLC

\* ---------------------------------------------------------------- bounds
\* The clients' requests in one run: POSTs of /api/voice-chat, WebSocket
\* connections and audio chunks, all together.
MaxRequests == 4

Conns  == 1..MaxRequests   \* connections, numbered as they arrive
\* chunks, numbered as they arrive; a chunk needs a connection to arrive on
Chunks == 1..(MaxRequests - 1)

\* ------------------------------------------------------------- constants
Null      == "<null>"        \* null / undefined of a string-valued field
Timestamp == "<date>"        \* a value of new Date()

\* routes.ts:115 and :244, the same literal twice
SystemPrompt ==
  "You are a helpful AI assistant engaged in a voice conversation. Keep responses concise and natural."

\* crypto.randomUUID() of the n-th POST /api/voice-chat: fresh each time
Uuid(n) == "s" \o ToString(n)

\* The transcript Deepgram hears in chunk h and the reply OpenAI gives to it:
\* distinct chunks carry distinct utterances.
Utterance(h) == "user" \o ToString(h)
Reply(h)     == "reply" \o ToString(h)
Audio(text)  == "mp3:" \o text

\* The agents table.  The relay only reads it (getAgent).
AgentTable ==
  (1 :> [voiceId |-> "v1", systemPrompt |-> "You are a pirate.",
         voiceSettings |-> "custom"]) @@
  (2 :> [voiceId |-> Null, systemPrompt |-> Null, voiceSettings |-> Null])

\* agentId values a client may put in the body of POST /api/voice-chat
RequestAgentIds == {1, 2, 3}

VARIABLES
  store,     \* voice_chat_sessions: session_id -> row
  agents,    \* agents: id -> row
  http,      \* session_id -> status code POST /api/voice-chat answered with
  cache,     \* conversationContexts: session id -> reference to an array
  heap,      \* reference -> the array's current elements
  conn,      \* per WebSocket connection: state, currentSessionId, close update
  task,      \* per chunk: the async message handler's position and locals
  completedDuring, \* per connection: active -> completed transitions of its
                   \* session while it was open or by its own close update
  budget,    \* the number of requests the clients make in this run
  patch,     \* per PATCH /api/agents/:id request: the handler's position
  crawlReq,  \* per POST /api/crawl request: the handler's position
  crawls,    \* website_crawls: id -> row
  documents, \* knowledge_documents: id -> row
  dialog     \* TestAgentDialog: its React state and its getUserMedia calls

\* the state of the voice relay, and the state outside it
relay == <<store, http, cache, heap, conn, task, completedDuring, budget>>
beside == <<patch, crawlReq, crawls, documents, dialog>>

vars == <<store, agents, http, cache, heap, conn, task, completedDuring, budget,
          patch, crawlReq, crawls, documents, dialog>>

\* ---------------------------------------------------------------- helpers
Last(s) == s[Len(s)]

\* MapDelete that leaves the entry in place
MapKeep(m, k) == m

\* Map.prototype.set / delete on a function with a finite domain
MapSet(m, k, v) == [x \in DOMAIN m \cup {k} |-> IF x = k THEN v ELSE m[x]]
MapDelete(m, k) == [x \in DOMAIN m \ {k} |-> m[x]]

IsPrefix(s, t) == Len(s) <= Len(t) /\ SubSeq(t, 1, Len(s)) = s

Msg(role, content) == [role |-> role, content |-> content]

\* DefaultContext built from an agent's own system prompt
AgentPromptContext == << Msg("system", "You are a pirate.") >>

\* the array literal of routes.ts:112-117 and :241-246
DefaultContext == << Msg("system", SystemPrompt) >>

\* references: the array POST creates for its n-th session, and the array
\* the handler of chunk h creates when the map has no entry
PostRef(n) == n
LazyRef(h) == MaxRequests + h

\* ------------------------------------------------- connection URL parsing
\* url.pathname.split('/'): a pathname is modelled by its list of segments,
\* "/ws/transcription/s1" being <<"", "ws", "transcription", "s1">>.
ExactPath      == << "", "ws", "transcription" >>
SessionPath(id) == << "", "ws", "transcription", id >>

\* routes.ts:33  urlParts[urlParts.length - 1]
SessionIdOf(urlParts) == urlParts[Len(urlParts)]

\* routes.ts:35  !currentSessionId  (the empty string is falsy)
Falsy(str) == str = "" \/ str = Null

\* ---------------------------------------------------- transcription adapter
\* A Deepgram HTTP response: ok is response.ok, the other fields describe the
\* parsed JSON body.  results/channels/alternatives say what the body holds on
\* the path results.channels[0].alternatives[0].transcript.
DeepgramBody(results, channels, alternatives, transcript, is_final) ==
  [ok |-> TRUE, results |-> results, channels |-> channels,
   alternatives |-> alternatives, transcript |-> transcript,
   is_final |-> is_final]

Speech(text, is_final) == DeepgramBody("present", "one", "one", text, is_final)

DeepgramError == [DeepgramBody("absent", "absent", "absent", Null, FALSE)
                    EXCEPT !.ok = FALSE]

\* the responses the provider may give to the request made for chunk h
DeepgramResponses(h) ==
  { DeepgramError,
    DeepgramBody("absent",  "absent", "absent", Null, FALSE),
    DeepgramBody("present", "absent", "absent", Null, FALSE),
    DeepgramBody("present", "empty",  "absent", Null, TRUE),
    DeepgramBody("present", "one",    "absent", Null, FALSE),
    DeepgramBody("present", "one",    "empty",  Null, FALSE),
    Speech(Null, FALSE), Speech("", FALSE), Speech(" ", TRUE),
    Speech(Utterance(h), FALSE), Speech(Utterance(h), TRUE) }

TypeError == "<TypeError>"

\* routes.ts:83  transcriptionData.results?.channels[0]?.alternatives[0]?.transcript
\* `?.` guards only the value to its left: results?.channels[0] indexes
\* channels whenever results exists, and channels[0]?.alternatives[0] indexes
\* alternatives whenever channels[0] exists.
ExtractTranscript(d) ==
  IF d.results = "absent" THEN Null
  ELSE IF d.channels = "absent" THEN TypeError
  ELSE IF d.channels = "empty" THEN Null
  ELSE IF d.alternatives = "absent" THEN TypeError
  ELSE IF d.alternatives = "empty" THEN Null
  ELSE d.transcript

\* Trim that leaves white space in place
TrimNothing(str) == str

\* String.prototype.trim on the strings the model uses
Trim(str) == IF str \in {"", " "} THEN "" ELSE str

\* routes.ts:85  transcript && transcript.trim()
HasText(transcript) == ~Falsy(transcript) /\ ~Falsy(Trim(transcript))

\* IsFinal taking every transcript for a final one
IsFinalAlways(d) == TRUE

\* routes.ts:94  if (transcriptionData.is_final)
IsFinal(d) == d.is_final

\* ------------------------------------------------------- client messages
TranscriptionMsg(text, isFinal) ==
  [type |-> "transcription", text |-> text, isFinal |-> isFinal]
ResponseMsg(text) == [type |-> "response", text |-> text, isFinal |-> FALSE]
AudioMsg(audio)   == [type |-> "audio", text |-> audio, isFinal |-> FALSE]
ErrorMsg(error)   == [type |-> "error", text |-> error, isFinal |-> FALSE]

\* ------------------------------------------------------------------ state
\* routes.ts:37  ws.close(1008, 'Session ID required')
PolicyViolation == 1008

\* a chunk that has not arrived yet
\* the PATCH and crawl requests of a run
Patches == 1..(MaxRequests - 2)
Crawls == 1..(MaxRequests - 2)

IdlePatch ==
  [pc |-> "idle", id |-> 0, body |-> << >>, update |-> << >>, status |-> 0]

\* crawlId: the id of the record the request created; document: the id of
\* the knowledge document it created; status: the response's status code;
\* carries: the crawlId in the response body (0: none)
IdleCrawl ==
  [pc |-> "idle", userId |-> 0, crawlId |-> 0, document |-> 0, status |-> 0,
   carries |-> 0]

\* isOpen, isRecording, chatStatus: the component's state; calls: the
\* getUserMedia calls made; pending: those not settled yet; streams: the
\* media streams obtained
ClosedDialog ==
  [isOpen |-> FALSE, isRecording |-> FALSE, chatStatus |-> "idle",
   pending |-> 0, calls |-> 0, streams |-> 0]

IdleTask ==
  [pc |-> "idle", conn |-> 0, transcript |-> Null,
   agent_id |-> 0, voiceId |-> Null, messages |-> 0,
   aiText |-> Null, sent |-> << >>, calls |-> << >>]

NoConn ==
  [state |-> "none", urlParts |-> << >>, currentSessionId |-> Null,
   code |-> 0, closeUpdate |-> "none"]

\* no PATCH and no crawl request was made, the tables of the crawl route are
\* empty, the dialog is as useState leaves it (TestAgentDialog.tsx:23-25)
InitBeside ==
  /\ patch = [p \in Patches |-> IdlePatch]
  /\ crawlReq = [k \in Crawls |-> IdleCrawl]
  /\ crawls = << >>
  /\ documents = << >>
  /\ dialog = ClosedDialog

Init ==
  /\ store = << >>
  /\ agents = AgentTable
  /\ http = << >>
  /\ cache = << >>
  /\ heap = << >>
  /\ conn = [c \in Conns |-> NoConn]
  /\ task = [h \in Chunks |-> IdleTask]
  /\ completedDuring = [c \in Conns |-> 0]
  /\ budget = MaxRequests
  /\ InitBeside

\* how many requests the clients have made so far
Requests ==
  Cardinality(DOMAIN http)
  + Cardinality({c \in Conns : conn[c].state # "none"})
  + Cardinality({h \in Chunks : task[h].pc # "idle"})

\* SidOf with one currentSessionId shared by all connections: the id of the
\* connection accepted last
SidOfLatest(h) ==
  LET accepted == {c \in Conns : conn[c].state \in {"open", "closed"}}
  IN IF accepted = {} THEN Null
     ELSE conn[CHOOSE c \in accepted : \A b \in accepted : b <= c].currentSessionId

\* the session id of the connection chunk h arrived on (the closure's
\* currentSessionId)
SidOf(h) ==
  IF task[h].conn \in Conns THEN conn[task[h].conn].currentSessionId ELSE Null

\* ------------------------------------------------- POST /api/voice-chat
\* NewSession with the record already completed
NewSessionCompleted(sessionId, agentId) ==
  [session_id |-> sessionId, agent_id |-> agentId, status |-> "completed",
   ended_at |-> Timestamp, transcription |-> Null, agent_response |-> Null]

\* routes.ts:220-234 with storage.createVoiceChatSession
NewSession(sessionId, agentId) ==
  [session_id |-> sessionId, agent_id |-> agentId, status |-> "active",
   ended_at |-> Null, transcription |-> Null, agent_response |-> Null]

\* routes.ts:215-257.  dbOk: whether the insert succeeds.  The handler has one
\* await, and nothing can use the new id before the response carries it.
PostVoiceChat(agentId, dbOk) ==
  LET n == Cardinality(DOMAIN http) + 1
      sessionId == Uuid(n)
  IN /\ n <= MaxRequests
     /\ Requests < budget
     /\ IF dbOk
        THEN /\ store' = MapSet(store, sessionId, NewSession(sessionId, agentId))
             /\ heap' = MapSet(heap, PostRef(n), DefaultContext)
             /\ cache' = MapSet(cache, sessionId, PostRef(n))
             /\ http' = MapSet(http, sessionId, 201)
        ELSE /\ http' = MapSet(http, sessionId, 400)
             /\ UNCHANGED <<store, heap, cache>>
     /\ UNCHANGED <<beside, budget, agents, conn, task, completedDuring>>

\* ------------------------------------------------------ wss.on('connection')
\* the pathnames a client connects with: the bare path, the path with an
\* empty last segment, and the path ending in an id a 201 response returned
ClientPaths == {ExactPath, SessionPath("")} \cup {SessionPath(id) : id \in DOMAIN store}

\* routes.ts:26-39.  Connections are numbered in the order they arrive.
Connect(c, urlParts) ==
  /\ conn[c].state = "none"
  /\ \A b \in Conns : b < c => conn[b].state # "none"
  /\ Requests < budget
  /\ LET currentSessionId == SessionIdOf(urlParts)
     IN conn' = [conn EXCEPT ![c] =
          IF Falsy(currentSessionId)
          THEN [@ EXCEPT !.state = "refused", !.code = PolicyViolation,
                         !.urlParts = urlParts,
                         !.currentSessionId = currentSessionId]
          ELSE [@ EXCEPT !.state = "open", !.urlParts = urlParts,
                         !.currentSessionId = currentSessionId]]
  /\ UNCHANGED <<beside, budget, store, agents, http, cache, heap, task, completedDuring>>

\* ------------------------------------------------------------ ws.on('close')
\* Close that deletes the entry only once the update has succeeded
CloseAwaitingUpdate(c) ==
  /\ conn[c].state = "open"
  /\ conn' = [conn EXCEPT ![c] = [@ EXCEPT !.state = "closed",
                                            !.closeUpdate = "pending"]]
  /\ UNCHANGED <<beside, budget, store, agents, http, cache, heap, task, completedDuring>>

\* routes.ts:201-211: the update is issued and not awaited; the entry is
\* deleted in the same turn of the event loop.
Close(c) ==
  /\ conn[c].state = "open"
  /\ conn' = [conn EXCEPT ![c] = [@ EXCEPT !.state = "closed",
                                            !.closeUpdate = "pending"]]
  /\ cache' = MapDelete(cache, conn[c].currentSessionId)
  /\ UNCHANGED <<beside, budget, store, agents, http, heap, task, completedDuring>>

\* storage.ts updateVoiceChatSession: .set(update).where(session_id = id)
\* writes the columns the update names and leaves the others; no row, throw
SessionExists(id) == id \in DOMAIN store

SetColumns(row, update) ==
  [col \in DOMAIN row |-> IF col \in DOMAIN update THEN update[col] ELSE row[col]]

\* CloseUpdate without the ended_at column
CloseUpdateStatusOnly == [status |-> "completed"]

\* CloseUpdate without the status column
CloseUpdateEndedOnly == [ended_at |-> Timestamp]

\* routes.ts:204-207
CloseUpdate == [status |-> "completed", ended_at |-> Timestamp]

\* TurnUpdate without the agent_response column
TurnUpdateTranscriptOnly(t) == [transcription |-> t.transcript]

\* TurnUpdate with the two texts stored in each other's column
TurnUpdateSwapped(t) ==
  [transcription |-> t.aiText, agent_response |-> t.transcript]

\* routes.ts:184-187
TurnUpdate(t) == [transcription |-> t.transcript, agent_response |-> t.aiText]

\* the update of routes.ts:204-207 reaches the database.  Its rejection goes
\* to .catch(console.error).
CloseUpdateReturn(c, dbOk) ==
  LET id == conn[c].currentSessionId
      applied == dbOk /\ SessionExists(id)
      moved == /\ applied
               /\ store[id].status # "completed"
               /\ SetColumns(store[id], CloseUpdate).status = "completed"
  IN /\ conn[c].closeUpdate = "pending"
     /\ conn' = [conn EXCEPT ![c].closeUpdate =
                   IF applied THEN "applied" ELSE "rejected"]
     /\ store' = IF applied
                 THEN [store EXCEPT ![id] = SetColumns(@, CloseUpdate)]
                 ELSE store
     /\ completedDuring' =
          [b \in Conns |->
             IF moved /\ conn[b].currentSessionId = id
                      /\ (b = c \/ conn[b].state = "open")
             THEN completedDuring[b] + 1 ELSE completedDuring[b]]
     /\ UNCHANGED <<beside, budget, agents, http, cache, heap, task>>

\* ---------------------------------------------------------- ws.on('message')
\* Catch sending the error message twice
CatchTwice(h, t, error) ==
  /\ task' = [task EXCEPT ![h] =
                [t EXCEPT !.pc = "done",
                          !.sent = t.sent \o << ErrorMsg(error), ErrorMsg(error) >>]]
  /\ UNCHANGED conn

\* Catch that sends the error and leaves the handler at the await that failed
CatchRetry(h, t, error) ==
  /\ task' = [task EXCEPT ![h] =
                [t EXCEPT !.sent = Append(t.sent, ErrorMsg(error))]]
  /\ UNCHANGED conn

\* Catch that also closes the socket
CatchClosing(h, t, error) ==
  /\ task' = [task EXCEPT ![h] =
                [t EXCEPT !.pc = "done",
                          !.sent = Append(t.sent, ErrorMsg(error))]]
  /\ conn' = [conn EXCEPT ![t.conn].state = "closed"]

\* routes.ts:192-198, the catch block: one error message, nothing else.  t is
\* the handler's record at the throw.
Catch(h, t, error) ==
  /\ task' = [task EXCEPT ![h] =
                [t EXCEPT !.pc = "done",
                          !.sent = Append(t.sent, ErrorMsg(error))]]
  /\ UNCHANGED conn

\* the rest of the pipeline, used to state what one chunk caused
SentTypes(h) == [i \in 1..Len(task[h].sent) |-> task[h].sent[i].type]
Errors(h) == SelectSeq(task[h].sent, LAMBDA m : m.type = "error")
Called(h, call) == \E i \in 1..Len(task[h].calls) : task[h].calls[i] = call

\* the handler goes on to its next await, or ends normally
Continue(h, t) ==
  /\ task' = [task EXCEPT ![h] = t]
  /\ UNCHANGED conn

Calling(t, pc, call) == [t EXCEPT !.pc = pc, !.calls = Append(@, call)]
Sending(t, msg) == [t EXCEPT !.sent = Append(@, msg)]

\* routes.ts:41-68: a binary frame arrives on an open connection and the
\* handler runs up to the await of the Deepgram fetch.  Chunks are numbered in
\* the order they arrive.
OnChunk(c, h) ==
  /\ conn[c].state = "open"
  /\ task[h].pc = "idle"
  /\ \A g \in Chunks : g < h => task[g].pc # "idle"
  /\ Requests < budget
  /\ task' = [task EXCEPT ![h] =
                [IdleTask EXCEPT !.pc = "deepgram", !.conn = c,
                                 !.calls = << "deepgram" >>]]
  /\ UNCHANGED <<beside, budget, store, agents, http, cache, heap, conn, completedDuring>>

\* routes.ts:70-96 and 189-191: the fetch resolves with the response d
DeepgramReturn(h, d) ==
  LET t == task[h]
      transcript == ExtractTranscript(d)
  IN /\ t.pc = "deepgram"
     /\ IF ~d.ok THEN Catch(h, t, "Deepgram API error")
        ELSE IF transcript = TypeError
        THEN Catch(h, t, "Cannot read properties of undefined")
        ELSE IF HasText(transcript)
        THEN LET t1 == Sending([t EXCEPT !.transcript = transcript],
                               TranscriptionMsg(transcript, d.is_final \/ FALSE))
             IN IF IsFinal(d)
                THEN Continue(h, Calling(t1, "getSession", "getVoiceChatSession"))
                ELSE Continue(h, [t1 EXCEPT !.pc = "done"])
        ELSE Continue(h, [t EXCEPT !.pc = "done"])
     /\ UNCHANGED <<beside, budget, store, agents, http, cache, heap, completedDuring>>

\* GetSessionReturn on a store that answers the lookups one at a time and
\* only once the handlers of all earlier chunks have ended
GetSessionReturnInOrder(h) ==
  LET t == task[h]
  IN /\ t.pc = "getSession"
     /\ \A g \in Chunks : g < h => task[g].pc = "done"
     /\ IF ~SessionExists(SidOf(h)) THEN Catch(h, t, "Session not found")
        ELSE Continue(h, Calling([t EXCEPT !.agent_id = store[SidOf(h)].agent_id],
                                 "getAgent", "getAgent"))
     /\ UNCHANGED <<beside, budget, store, agents, http, cache, heap, completedDuring>>

\* routes.ts:96-101: storage.getVoiceChatSession resolves.  (A rejected
\* lookup reaches the same catch block as the throw of line 98, with another
\* error text.)
GetSessionReturn(h) ==
  LET t == task[h]
      id == SidOf(h)
  IN /\ t.pc = "getSession"
     /\ IF ~SessionExists(id) THEN Catch(h, t, "Session not found")
        ELSE Continue(h, Calling([t EXCEPT !.agent_id = store[id].agent_id],
                                 "getAgent", "getAgent"))
     /\ UNCHANGED <<beside, budget, store, agents, http, cache, heap, completedDuring>>

\* routes.ts:101-125: storage.getAgent resolves; the context is fetched or
\* created, the user turn is pushed onto it and the completion is requested
GetAgentReturn(h) ==
  LET t == task[h]
      id == SidOf(h)
      cached == id \in DOMAIN cache
      messages == IF cached THEN cache[id] ELSE LazyRef(h)
      elements == IF cached THEN heap[cache[id]] ELSE DefaultContext
  IN /\ t.pc = "getAgent"
     /\ IF t.agent_id \notin DOMAIN agents
        THEN Catch(h, t, "Agent not found") /\ UNCHANGED heap
        ELSE /\ heap' = MapSet(heap, messages,
                               Append(elements, Msg("user", t.transcript)))
             /\ Continue(h, Calling([t EXCEPT !.messages = messages,
                                              !.voiceId = agents[t.agent_id].voiceId],
                                    "completion", "chat.completions.create"))
     /\ UNCHANGED <<beside, budget, store, agents, http, cache, completedDuring>>

\* VoiceSelected without the check
VoiceAlways(voiceId) == TRUE

\* routes.ts:143  !agent.voiceId
VoiceSelected(voiceId) == ~Falsy(voiceId)

\* routes.ts:122-163: the completion resolves with content (outcome "content"),
\* resolves without content ("empty") or rejects ("rejected")
CompletionOutcomes == {"content", "empty", "rejected"}

CompletionReturn(h, outcome) ==
  LET t == task[h]
      id == SidOf(h)
      aiText == Reply(h)
      t1 == Sending([t EXCEPT !.aiText = aiText], ResponseMsg(aiText))
  IN /\ t.pc = "completion"
     /\ IF outcome = "rejected"
        THEN Catch(h, t, "completion request failed") /\ UNCHANGED <<heap, cache>>
        ELSE IF outcome = "empty"
        THEN Catch(h, t, "No AI response generated") /\ UNCHANGED <<heap, cache>>
        ELSE /\ heap' = [heap EXCEPT ![t.messages] =
                           Append(@, Msg("assistant", aiText))]
             /\ cache' = MapSet(cache, id, t.messages)
             /\ IF ~VoiceSelected(t.voiceId)
                THEN Catch(h, t1, "No voice selected for agent")
                ELSE Continue(h, Calling(t1, "synthesis", "text-to-speech"))
     /\ UNCHANGED <<beside, budget, store, agents, http, completedDuring>>

\* SynthesisReturn that sends the request a second time when the first fails
SynthesisReturnRetrying(h, ok) ==
  LET t == task[h]
  IN /\ t.pc = "synthesis"
     /\ IF ~ok /\ Len(SelectSeq(t.calls, LAMBDA call : call = "text-to-speech")) < 2
        THEN Continue(h, Calling(t, "synthesis", "text-to-speech"))
        ELSE IF ~ok THEN Catch(h, t, "Failed to synthesize speech")
        ELSE Continue(h, Calling(Sending(t, AudioMsg(Audio(t.aiText))),
                                 "update", "updateVoiceChatSession"))
     /\ UNCHANGED <<beside, budget, store, agents, http, cache, heap, completedDuring>>

\* routes.ts:165-187: the ElevenLabs fetch resolves with ok or not
SynthesisReturn(h, ok) ==
  LET t == task[h]
  IN /\ t.pc = "synthesis"
     /\ IF ~ok THEN Catch(h, t, "Failed to synthesize speech")
        ELSE Continue(h, Calling(Sending(t, AudioMsg(Audio(t.aiText))),
                                 "update", "updateVoiceChatSession"))
     /\ UNCHANGED <<beside, budget, store, agents, http, cache, heap, completedDuring>>

\* routes.ts:184-188: storage.updateVoiceChatSession resolves or rejects
UpdateReturn(h, dbOk) ==
  LET t == task[h]
      id == SidOf(h)
  IN /\ t.pc = "update"
     /\ IF ~dbOk THEN Catch(h, t, "database error") /\ UNCHANGED store
        ELSE IF ~SessionExists(id)
        THEN Catch(h, t, "Voice chat session not found") /\ UNCHANGED store
        ELSE /\ store' = [store EXCEPT ![id] = SetColumns(@, TurnUpdate(t))]
             /\ Continue(h, [t EXCEPT !.pc = "done"])
     /\ UNCHANGED <<beside, budget, agents, http, cache, heap, completedDuring>>

\* ---------------------------------------------------------- specification
Next ==
  \/ \E agentId \in RequestAgentIds, dbOk \in BOOLEAN : PostVoiceChat(agentId, dbOk)
  \/ \E c \in Conns, urlParts \in ClientPaths : Connect(c, urlParts)
  \/ \E c \in Conns : Close(c)
  \/ \E c \in Conns, dbOk \in BOOLEAN : CloseUpdateReturn(c, dbOk)
  \/ \E c \in Conns, h \in Chunks : OnChunk(c, h)
  \/ \E h \in Chunks : \E d \in DeepgramResponses(h) : DeepgramReturn(h, d)
  \/ \E h \in Chunks : GetSessionReturn(h)
  \/ \E h \in Chunks : GetAgentReturn(h)
  \/ \E h \in Chunks, outcome \in CompletionOutcomes : CompletionReturn(h, outcome)
  \/ \E h \in Chunks, ok \in BOOLEAN : SynthesisReturn(h, ok)
  \/ \E h \in Chunks, dbOk \in BOOLEAN : UpdateReturn(h, dbOk)

Spec == Init /\ [][Next]_vars

\* ------------------------------------------------- two sessions under way
\* A connection accepted with the id of a session: the value Connect leaves
OpenConn(id) ==
  [NoConn EXCEPT !.state = "open", !.urlParts = SessionPath(id),
                 !.currentSessionId = id]

\* The state after two POSTs for agent 1 were answered 201 (sessions Uuid(1)
\* and Uuid(2)) and one client connected with each id.  From there the two
\* clients send chunks and disconnect; nobody else makes a request.
InitTwoSessions ==
  /\ store = (Uuid(1) :> NewSession(Uuid(1), 1)) @@
             (Uuid(2) :> NewSession(Uuid(2), 1))
  /\ agents = AgentTable
  /\ http = (Uuid(1) :> 201) @@ (Uuid(2) :> 201)
  /\ heap = (PostRef(1) :> DefaultContext) @@ (PostRef(2) :> DefaultContext)
  /\ cache = (Uuid(1) :> PostRef(1)) @@ (Uuid(2) :> PostRef(2))
  /\ conn = [c \in Conns |-> IF c \in {1, 2} THEN OpenConn(Uuid(c)) ELSE NoConn]
  /\ task = [h \in Chunks |-> IdleTask]
  /\ completedDuring = [c \in Conns |-> 0]
  /\ budget = MaxRequests + 2
  /\ InitBeside

NextTwoSessions ==
  \/ \E c \in Conns : Close(c)
  \/ \E c \in Conns : CloseUpdateReturn(c, TRUE)
  \/ \E c \in Conns, h \in Chunks : OnChunk(c, h)
  \/ \E h \in Chunks : \E d \in {DeepgramError, Speech(Utterance(h), TRUE)} :
       DeepgramReturn(h, d)
  \/ \E h \in Chunks : GetSessionReturn(h)
  \/ \E h \in Chunks : GetAgentReturn(h)
  \/ \E h \in Chunks, outcome \in {"content", "empty"} : CompletionReturn(h, outcome)
  \/ \E h \in Chunks, ok \in BOOLEAN : SynthesisReturn(h, ok)
  \/ \E h \in Chunks : UpdateReturn(h, TRUE)

SpecTwoSessions == InitTwoSessions /\ [][NextTwoSessions]_vars

\* the call the handler of chunk h awaits returns
Returns(h) ==
  \/ \E d \in {DeepgramError, Speech(Utterance(h), TRUE)} : DeepgramReturn(h, d)
  \/ GetSessionReturn(h)
  \/ GetAgentReturn(h)
  \/ \E outcome \in {"content", "empty"} : CompletionReturn(h, outcome)
  \/ \E ok \in BOOLEAN : SynthesisReturn(h, ok)
  \/ UpdateReturn(h, TRUE)

\* the calls made for the session Uuid(1) may never return; every call made
\* for another session returns (each await of routes.ts:41-199 is resumed by
\* the event loop once its promise settles, whatever other handlers wait for)
NextOneHung ==
  \/ \E c \in Conns, h \in Chunks : OnChunk(c, h)
  \/ \E h \in Chunks : Returns(h)

SpecOneHung ==
  /\ InitTwoSessions /\ [][NextOneHung]_vars
  /\ \A h \in Chunks :
       WF_vars(task[h].pc # "idle" /\ SidOf(h) # Uuid(1) /\ Returns(h))

\* ------------------------------------------------ every call returns
\* the call the handler of chunk h awaits returns, with any outcome
Settles(h) ==
  \/ \E d \in DeepgramResponses(h) : DeepgramReturn(h, d)
  \/ GetSessionReturn(h)
  \/ GetAgentReturn(h)
  \/ \E outcome \in CompletionOutcomes : CompletionReturn(h, outcome)
  \/ \E ok \in BOOLEAN : SynthesisReturn(h, ok)
  \/ \E dbOk \in BOOLEAN : UpdateReturn(h, dbOk)

\* the first client sends chunks, the second one is connected and silent
NextAllSettle ==
  \/ \E h \in Chunks : OnChunk(1, h)
  \/ \E h \in Chunks : Settles(h)

\* every provider call and every store call returns, with success or with
\* failure: the promise each await of routes.ts:41-199 waits for settles
SpecAllSettle ==
  /\ InitTwoSessions /\ [][NextAllSettle]_vars
  /\ \A h \in Chunks : WF_vars(Settles(h))

\* ------------------------------------------------ PATCH /api/agents/:id
\* the bodies the configuration page sends (TestAgentDialog.tsx:183-235):
\* the voice, the voice settings, and a field of the basic settings
PatchBodies ==
  { [voiceId |-> "v2"], [voiceSettings |-> "tuned"],
    [systemPrompt |-> "Be brief."] }

\* { ...agent, ...body }: the fields of both, the body's values winning
Spread(agent, body) ==
  [col \in DOMAIN agent \cup DOMAIN body |->
     IF col \in DOMAIN body THEN body[col] ELSE agent[col]]

\* routes.ts:308-310: the request arrives and getAgent is called.  Requests
\* are numbered in the order they arrive.
PatchRequest(p, id, body) ==
  /\ patch[p].pc = "idle"
  /\ \A q \in Patches : q < p => patch[q].pc # "idle"
  /\ patch' = [patch EXCEPT ![p] =
                 [IdlePatch EXCEPT !.pc = "getAgent", !.id = id, !.body = body]]
  /\ UNCHANGED <<relay, agents, crawlReq, crawls, documents, dialog>>

\* routes.ts:310-319: getAgent resolves (or rejects, and the catch block
\* answers 500); updateAgent is called with every column of the row read
PatchGetAgentReturn(p, dbOk) ==
  LET r == patch[p]
  IN /\ r.pc = "getAgent"
     /\ patch' = [patch EXCEPT ![p] =
          IF ~dbOk THEN [r EXCEPT !.pc = "done", !.status = 500]
          ELSE IF r.id \notin DOMAIN agents
          THEN [r EXCEPT !.pc = "done", !.status = 404]
          ELSE [r EXCEPT !.pc = "update",
                         !.update = Spread(agents[r.id], r.body)]]
     /\ UNCHANGED <<relay, agents, crawlReq, crawls, documents, dialog>>

\* routes.ts:316-325 with storage.updateAgent (part_001:89-97): the update
\* sets the columns it was given (updatedAt is not a column of the model's
\* rows); no row or a database error, 500
PatchUpdateReturn(p, dbOk) ==
  LET r == patch[p]
      applied == dbOk /\ r.id \in DOMAIN agents
  IN /\ r.pc = "update"
     /\ agents' = IF applied
                  THEN [agents EXCEPT ![r.id] = SetColumns(@, r.update)]
                  ELSE agents
     /\ patch' = [patch EXCEPT ![p] =
                   [r EXCEPT !.pc = "done",
                             !.status = IF applied THEN 200 ELSE 500]]
     /\ UNCHANGED <<relay, crawlReq, crawls, documents, dialog>>

NextPatch ==
  \/ \E p \in Patches, id \in RequestAgentIds, body \in PatchBodies :
       PatchRequest(p, id, body)
  \/ \E p \in Patches, dbOk \in BOOLEAN : PatchGetAgentReturn(p, dbOk)
  \/ \E p \in Patches, dbOk \in BOOLEAN : PatchUpdateReturn(p, dbOk)

SpecPatch == Init /\ [][NextPatch]_vars

\* ------------------------------------------------------ POST /api/crawl
\* the users table, and the userId values a request body may carry (0: none)
Users == {1}
RequestUserIds == {0, 1, 2}

Url(k) == "https://site" \o ToString(k)

\* what the Firecrawl request may come to: the fetch rejects, the response
\* is not ok, its body has no content, or it has content
FirecrawlOutcomes == {"rejected", "notOk", "noContent", "content"}

\* the handler of request k answers with status and, in the body, crawlId
Respond(k, r, status, crawlId) ==
  crawlReq' = [crawlReq EXCEPT ![k] =
                 [r EXCEPT !.pc = "done", !.status = status, !.carries = crawlId]]

\* routes.ts:329-340: the body is parsed (valid: whether it passes the
\* schema; a throw reaches the outer catch block, 439-445) and the user is
\* looked up.  Requests are numbered in the order they arrive.
CrawlRequest(k, valid, userId) ==
  LET r == [IdleCrawl EXCEPT !.userId = userId]
  IN /\ crawlReq[k].pc = "idle"
     /\ \A j \in Crawls : j < k => crawlReq[j].pc # "idle"
     /\ IF ~valid \/ userId = 0 THEN Respond(k, r, 400, 0)
        ELSE crawlReq' = [crawlReq EXCEPT ![k] = [r EXCEPT !.pc = "getUser"]]
     /\ UNCHANGED <<relay, agents, patch, crawls, documents, dialog>>

\* routes.ts:340-359: getUser resolves; createWebsiteCrawl is called
CrawlGetUserReturn(k, dbOk) ==
  LET r == crawlReq[k]
  IN /\ r.pc = "getUser"
     /\ IF ~dbOk \/ r.userId \notin Users THEN Respond(k, r, 400, 0)
        ELSE crawlReq' = [crawlReq EXCEPT ![k] = [r EXCEPT !.pc = "create"]]
     /\ UNCHANGED <<relay, agents, patch, crawls, documents, dialog>>

\* routes.ts:352-384 with createWebsiteCrawl (part_001:211-220): the record
\* is inserted with status pending and the Firecrawl request is sent
CrawlCreateReturn(k, dbOk) ==
  LET r == crawlReq[k]
      id == Cardinality(DOMAIN crawls) + 1
  IN /\ r.pc = "create"
     /\ IF ~dbOk THEN Respond(k, r, 400, 0) /\ UNCHANGED crawls
        ELSE /\ crawls' = MapSet(crawls, id, [url |-> Url(k), status |-> "pending"])
             /\ crawlReq' = [crawlReq EXCEPT ![k] =
                              [r EXCEPT !.pc = "fetch", !.crawlId = id]]
     /\ UNCHANGED <<relay, agents, patch, documents, dialog>>

\* the inner catch block, routes.ts:422-428: the update to status failed is
\* issued
Failing(k, r) ==
  crawlReq' = [crawlReq EXCEPT ![k] = [r EXCEPT !.pc = "updateFailed"]]

\* routes.ts:370-413: the Firecrawl request settles; with content,
\* createKnowledgeDocument is called, otherwise the handler throws
CrawlFetchReturn(k, outcome) ==
  LET r == crawlReq[k]
  IN /\ r.pc = "fetch"
     /\ IF outcome = "content"
        THEN crawlReq' = [crawlReq EXCEPT ![k] = [r EXCEPT !.pc = "createDocument"]]
        ELSE Failing(k, r)
     /\ UNCHANGED <<relay, agents, patch, crawls, documents, dialog>>

\* routes.ts:401-419 with createKnowledgeDocument (part_001:284-290): the
\* document is inserted and the update to status completed is issued
CrawlCreateDocumentReturn(k, dbOk) ==
  LET r == crawlReq[k]
      id == Cardinality(DOMAIN documents) + 1
  IN /\ r.pc = "createDocument"
     /\ IF ~dbOk THEN Failing(k, r) /\ UNCHANGED documents
        ELSE /\ documents' = MapSet(documents, id,
                                    [type |-> "website", source |-> Url(k)])
             /\ crawlReq' = [crawlReq EXCEPT ![k] =
                              [r EXCEPT !.pc = "updateCompleted", !.document = id]]
     /\ UNCHANGED <<relay, agents, patch, crawls, dialog>>

\* routes.ts:415-421 with updateWebsiteCrawl (part_001:222-230): the record
\* is set to completed and 201 is answered, or the update rejects
CrawlUpdateCompletedReturn(k, dbOk) ==
  LET r == crawlReq[k]
  IN /\ r.pc = "updateCompleted"
     /\ IF ~dbOk \/ r.crawlId \notin DOMAIN crawls
        THEN Failing(k, r) /\ UNCHANGED crawls
        ELSE /\ crawls' = [crawls EXCEPT ![r.crawlId].status = "completed"]
             /\ Respond(k, r, 201, 0)
     /\ UNCHANGED <<relay, agents, patch, documents, dialog>>

\* routes.ts:422-445: the update of the inner catch block resolves and 400
\* is answered with the crawlId, or it rejects and the outer catch block
\* answers 400 without it
CrawlUpdateFailedReturn(k, dbOk) ==
  LET r == crawlReq[k]
  IN /\ r.pc = "updateFailed"
     /\ IF ~dbOk \/ r.crawlId \notin DOMAIN crawls
        THEN Respond(k, r, 400, 0) /\ UNCHANGED crawls
        ELSE /\ crawls' = [crawls EXCEPT ![r.crawlId].status = "failed"]
             /\ Respond(k, r, 400, r.crawlId)
     /\ UNCHANGED <<relay, agents, patch, documents, dialog>>

NextCrawl ==
  \/ \E k \in Crawls, valid \in BOOLEAN, userId \in RequestUserIds :
       CrawlRequest(k, valid, userId)
  \/ \E k \in Crawls, dbOk \in BOOLEAN : CrawlGetUserReturn(k, dbOk)
  \/ \E k \in Crawls, dbOk \in BOOLEAN : CrawlCreateReturn(k, dbOk)
  \/ \E k \in Crawls, outcome \in FirecrawlOutcomes : CrawlFetchReturn(k, outcome)
  \/ \E k \in Crawls, dbOk \in BOOLEAN : CrawlCreateDocumentReturn(k, dbOk)
  \/ \E k \in Crawls, dbOk \in BOOLEAN : CrawlUpdateCompletedReturn(k, dbOk)
  \/ \E k \in Crawls, dbOk \in BOOLEAN : CrawlUpdateFailedReturn(k, dbOk)

SpecCrawl == Init /\ [][NextCrawl]_vars

\* ------------------------------------------------------ TestAgentDialog
\* TestAgentDialog.tsx:78-88: the microphone button is rendered while the
\* dialog is open and nothing is recorded, and is disabled in the error state
MicEnabled(s) == s.isOpen /\ ~s.isRecording /\ s.chatStatus # "error"

\* TestAgentDialog.tsx:89-97: the stop button is rendered while recording
StopShown(s) == s.isOpen /\ s.isRecording

\* TestAgentDialog.tsx:27-29: startRecording runs up to the await
ClickMic(s) == [s EXCEPT !.pending = @ + 1, !.calls = @ + 1]

\* TestAgentDialog.tsx:29-35: getUserMedia resolves
MediaGranted(s) ==
  [s EXCEPT !.pending = @ - 1, !.streams = @ + 1,
            !.isRecording = TRUE, !.chatStatus = "recording"]

\* TestAgentDialog.tsx:36-44: getUserMedia rejects
MediaDenied(s) == [s EXCEPT !.pending = @ - 1, !.chatStatus = "error"]

\* TestAgentDialog.tsx:47-50
ClickStop(s) == [s EXCEPT !.isRecording = FALSE, !.chatStatus = "idle"]

\* TestAgentDialog.tsx:64  onOpenChange={setIsOpen}: the trigger opens the
\* dialog, the close button or the escape key closes it
OpenChange(s) == [s EXCEPT !.isOpen = ~@]

\* the states one user action (or the answer to the permission prompt) leads
\* to from the dialog state s
DialogSteps(s) ==
  (IF MicEnabled(s) THEN {ClickMic(s)} ELSE {})
  \cup (IF StopShown(s) THEN {ClickStop(s)} ELSE {})
  \cup (IF s.pending > 0 THEN {MediaGranted(s), MediaDenied(s)} ELSE {})
  \cup {OpenChange(s)}

StartRecording ==
  /\ MicEnabled(dialog) /\ dialog.calls < MaxRequests
  /\ dialog' = ClickMic(dialog)
  /\ UNCHANGED <<relay, agents, patch, crawlReq, crawls, documents>>

GetUserMediaReturn(granted) ==
  /\ dialog.pending > 0
  /\ dialog' = IF granted THEN MediaGranted(dialog) ELSE MediaDenied(dialog)
  /\ UNCHANGED <<relay, agents, patch, crawlReq, crawls, documents>>

StopRecording ==
  /\ StopShown(dialog)
  /\ dialog' = ClickStop(dialog)
  /\ UNCHANGED <<relay, agents, patch, crawlReq, crawls, documents>>

SetIsOpen ==
  /\ dialog' = OpenChange(dialog)
  /\ UNCHANGED <<relay, agents, patch, crawlReq, crawls, documents>>

NextDialog ==
  \/ StartRecording
  \/ \E granted \in BOOLEAN : GetUserMediaReturn(granted)
  \/ StopRecording
  \/ SetIsOpen

SpecDialog == Init /\ [][NextDialog]_vars

\* ================================================================ claims

\* what chunk h said, when its transcript had text
Heard(h) == task[h].sent # << >> /\ task[h].sent[1].type = "transcription"
HeardFinal(h) == Heard(h) /\ task[h].sent[1].isFinal
HeardInterim(h) == Heard(h) /\ ~task[h].sent[1].isFinal

Failed(h) == Errors(h) # << >>

\* the three messages of a successful turn for chunk h
Turn(h) ==
  << TranscriptionMsg(Utterance(h), TRUE), ResponseMsg(Reply(h)),
     AudioMsg(Audio(Reply(h))) >>

\* the turn of chunk h succeeded: final transcript, audio sent, record updated
Succeeded(h) == task[h].pc = "done" /\ HeardFinal(h) /\ ~Failed(h)

C2_InterimStops ==
  \A h \in Chunks :
    HeardInterim(h) =>
      /\ task[h].pc = "done"
      /\ task[h].sent = << TranscriptionMsg(Utterance(h), FALSE) >>
      /\ task[h].calls = << "deepgram" >>
      /\ task[h].agent_id = 0 /\ task[h].messages = 0 /\ task[h].aiText = Null
      /\ \A id \in DOMAIN store : store[id].transcription # Utterance(h)
      /\ \A r \in DOMAIN heap : \A i \in 1..Len(heap[r]) :
           heap[r][i].content # Utterance(h)

\* an interim chunk on a connection of an existing session with a context
C2_Witness ==
  \E h \in Chunks :
    /\ HeardInterim(h) /\ task[h].pc = "done"
    /\ SessionExists(SidOf(h)) /\ SidOf(h) \in DOMAIN cache
    /\ heap[cache[SidOf(h)]] = DefaultContext

\* C3: when the transcript is final and the session lookup or the agent lookup
\* returns nothing, the chunk gets exactly one error message (after its
\* transcription message), no completion or synthesis call is made, and the
\* handler never took or created a context: no array holds its user turn.
LookupFailed(h) ==
  /\ Failed(h)
  /\ Errors(h)[1].text \in {"Session not found", "Agent not found"}

C3_LookupNothing ==
  \A h \in Chunks :
    /\ LookupFailed(h) =>
         /\ task[h].sent = << TranscriptionMsg(Utterance(h), TRUE), Errors(h)[1] >>
         /\ ~Called(h, "chat.completions.create")
         /\ ~Called(h, "text-to-speech")
         /\ task[h].messages = 0
         /\ \A r \in DOMAIN heap : \A i \in 1..Len(heap[r]) :
              heap[r][i].content # Utterance(h)
    /\ task[h].pc = "done" /\ HeardFinal(h) /\ ~SessionExists(SidOf(h)) =>
         Errors(h) = << ErrorMsg("Session not found") >>
    /\ /\ task[h].pc = "done" /\ HeardFinal(h) /\ SessionExists(SidOf(h))
       /\ store[SidOf(h)].agent_id \notin DOMAIN agents
       => Errors(h) = << ErrorMsg("Agent not found") >>

\* the agent of an existing session is missing; the session's context is
\* still the one POST created
C3_Witness ==
  \E h \in Chunks :
    /\ task[h].pc = "done"
    /\ Errors(h) = << ErrorMsg("Agent not found") >>
    /\ conn[task[h].conn].state = "open"
    /\ SidOf(h) \in DOMAIN cache /\ heap[cache[SidOf(h)]] = DefaultContext

\* the context the map holds for a session id
Context(id) == heap[cache[id]]
Accepted(c) == conn[c].state \in {"open", "closed"}
OnConn(c) == {h \in Chunks : task[h].pc # "idle" /\ task[h].conn = c}
InFlight(h) == task[h].pc \notin {"idle", "done"}

\* C4 (as claimed): between two consecutive states in which the map holds a
\* context for a session id, the new value keeps the old one as a prefix, so
\* it is at least as long.
C4_NeverShrinks ==
  [][\A id \in DOMAIN cache \cap DOMAIN cache' :
       IsPrefix(heap[cache[id]], heap'[cache'[id]])]_vars

\* C5: whenever the map holds a context for a session id, its first element
\* is the fixed default system message and no other element is a system
\* message, for contexts POST created and for contexts created lazily, and
\* whatever the systemPrompt of the session's agent.
C5_SystemFirst ==
  \A id \in DOMAIN cache :
    /\ Len(Context(id)) >= 1
    /\ Context(id)[1] = Msg("system", SystemPrompt)
    /\ \A i \in 2..Len(Context(id)) : Context(id)[i].role \in {"user", "assistant"}

\* a lazily created context is in the map, for an agent with its own prompt
C5_Witness ==
  \E h \in Chunks :
    /\ task[h].messages = LazyRef(h)
    /\ SidOf(h) \in DOMAIN cache /\ cache[SidOf(h)] = LazyRef(h)
    /\ agents[store[SidOf(h)].agent_id].systemPrompt # Null
    /\ Len(Context(SidOf(h))) = 3

Sole(c) ==
  \A b \in Conns \ {c} : conn[b].currentSessionId # conn[c].currentSessionId

C7_DisconnectEvicts ==
  [][\A c \in Conns :
       LET id == conn[c].currentSessionId IN
       /\ conn[c].state = "open" /\ conn'[c].state = "closed" =>
            /\ id \notin DOMAIN cache'
            /\ conn'[c].closeUpdate = "pending"
       /\ conn[c].closeUpdate = "pending" /\ conn'[c].closeUpdate = "applied" =>
            /\ store'[id].status = "completed"
            /\ store'[id].ended_at = Timestamp]_vars

\* a connection with an interim transcript and no final one was closed: the
\* entry is gone and the session completed
C7_Witness ==
  \E c \in Conns :
    /\ conn[c].state = "closed" /\ conn[c].closeUpdate = "applied"
    /\ conn[c].currentSessionId \notin DOMAIN cache
    /\ store[conn[c].currentSessionId].status = "completed"
    /\ \E h \in OnConn(c) : HeardInterim(h)
    /\ \A h \in OnConn(c) : task[h].pc = "done" /\ ~HeardFinal(h)

\* C8 (as claimed, for the ids a connection was accepted with): the map holds
\* an entry for such an id only while a connection for it is open, so none
\* exists or reappears once its connections have closed.
C8_EntryOnlyWhileOpen ==
  \A id \in DOMAIN cache :
    (\E c \in Conns : Accepted(c) /\ conn[c].currentSessionId = id) =>
      \E c \in Conns : conn[c].state = "open" /\ conn[c].currentSessionId = id

\* C9: when the session's agent has no voice id, a chunk with a final
\* transcript whose completion succeeds gets transcription, response and then
\* exactly one error message; no synthesis call is made and no audio is sent.
NoVoice(h) ==
  /\ SessionExists(SidOf(h))
  /\ store[SidOf(h)].agent_id \in DOMAIN agents
  /\ agents[store[SidOf(h)].agent_id].voiceId = Null

C9_NoVoice ==
  \A h \in Chunks :
    NoVoice(h) =>
      /\ ~Called(h, "text-to-speech")
      /\ \A i \in 1..Len(task[h].sent) : task[h].sent[i].type # "audio"
      /\ task[h].pc \notin {"synthesis", "update"}
      /\ task[h].aiText # Null =>
           /\ task[h].pc = "done"
           /\ task[h].sent = << TranscriptionMsg(Utterance(h), TRUE),
                                ResponseMsg(Reply(h)),
                                ErrorMsg("No voice selected for agent") >>

C9_Witness ==
  \E h \in Chunks :
    /\ NoVoice(h) /\ task[h].aiText = Reply(h) /\ task[h].pc = "done"
    /\ SentTypes(h) = << "transcription", "response", "error" >>

\* the next chunk to arrive
NextChunk == CHOOSE h \in Chunks : task[h].pc = "idle" /\ \A g \in Chunks : g < h => task[g].pc # "idle"

\* C10: a connection leaves the open state only in the step of its close
\* handler, never in a step of a chunk handler, whatever failed; and while a
\* connection is open a further chunk is accepted on it after a failed chunk.
C10_OnlyDisconnectCloses ==
  [][\A c \in Conns :
       /\ conn[c].state = "open" /\ conn'[c].state # "open" => Close(c)
       /\ /\ conn[c].state = "open" /\ Requests < budget
          /\ \E g \in OnConn(c) : task[g].pc = "done" /\ Failed(g)
          => ENABLED OnChunk(c, NextChunk)]_vars

\* on an open connection a chunk failed and a later chunk's turn succeeded
C10_Witness ==
  \E g, h \in Chunks :
    /\ g < h /\ task[g].conn = task[h].conn
    /\ task[g].pc = "done" /\ Failed(g)
    /\ Succeeded(h)
    /\ conn[task[h].conn].state = "open"

\* the calls of the pipeline in the order the handler makes them
Pipeline ==
  << "deepgram", "getVoiceChatSession", "getAgent", "chat.completions.create",
     "text-to-speech", "updateVoiceChatSession" >>

\* the number of calls a handler has made when it fails with this error
CallsAt(error) ==
  CASE error \in {"Deepgram API error", "Cannot read properties of undefined"} -> 1
    [] error = "Session not found" -> 2
    [] error = "Agent not found" -> 3
    [] error \in {"completion request failed", "No AI response generated",
                  "No voice selected for agent"} -> 4
    [] error = "Failed to synthesize speech" -> 5
    [] error \in {"database error", "Voice chat session not found"} -> 6

\* where chunk h has left a trace: positions of the arrays that hold one of
\* its turns, and session records that hold its transcript
Appended(h, hp) ==
  UNION {{<<r, i>> : i \in {j \in 1..Len(hp[r]) :
                              hp[r][j].content \in {Utterance(h), Reply(h)}}} :
         r \in DOMAIN hp}
Written(h, st) == {id \in DOMAIN st : st[id].transcription = Utterance(h)}

\* C11: a chunk gets at most one error message and it is the last message
\* sent for it; the handler's calls are a prefix of the pipeline (no call is
\* made twice) and stop at the step that failed; once a chunk has failed its
\* handler never moves again, no array gains one of its turns and no record
\* gains its transcript; a transcription-provider failure yields the error
\* message alone.
C11_OneErrorThenStop ==
  /\ [](\A h \in Chunks :
         /\ Len(Errors(h)) <= 1
         /\ IsPrefix(task[h].calls, Pipeline)
         /\ Failed(h) =>
              /\ task[h].pc = "done"
              /\ Last(task[h].sent).type = "error"
              /\ Len(task[h].calls) = CallsAt(Errors(h)[1].text)
              /\ Written(h, store) = {}
              /\ Errors(h)[1].text = "Deepgram API error" =>
                   task[h].sent = << ErrorMsg("Deepgram API error") >>)
  /\ [][\A h \in Chunks :
         task[h].pc = "done" /\ Failed(h) =>
           /\ task'[h] = task[h]
           /\ heap' # heap => Appended(h, heap') \subseteq Appended(h, heap)
           /\ store' # store => Written(h, store') \subseteq Written(h, store)]_vars

\* one chunk failed at the transcription provider and another one at the
\* synthesis, after its user turn and its reply had entered the context
C11_Witness ==
  \E g, h \in Chunks :
    /\ task[g].sent = << ErrorMsg("Deepgram API error") >>
    /\ SentTypes(h) = << "transcription", "response", "error" >>
    /\ Errors(h)[1].text = "Failed to synthesize speech"
    /\ Appended(h, heap) # {}

\* a transcript without text: undefined, empty or white space only
Blank(transcript) == transcript \in {Null, "", " "}

\* the handler of chunk h ended without sending anything
Silent(h) == task[h].pc = "done" /\ task[h].sent = << >>

NoSessionId(urlParts) == urlParts = ExactPath \/ Last(urlParts) = ""

\* C13 (as claimed): a connection whose path is exactly /ws/transcription, or
\* ends in an empty segment, is refused: closed with the refusal code, no
\* chunk is ever processed on it and no close update is issued for it.
C13_NoIdRefused ==
  \A c \in Conns :
    conn[c].state # "none" /\ NoSessionId(conn[c].urlParts) =>
      /\ conn[c].state = "refused"
      /\ conn[c].code = PolicyViolation
      /\ OnConn(c) = {}
      /\ conn[c].closeUpdate = "none"

\* C14: a step that answers a POST /api/voice-chat answers one request, with
\* 201 or 400, for an id no record, cache entry or earlier answer had; with
\* 201 the store gains exactly the record of that id, active, with ended_at,
\* transcription and agent_response null, and the cache the default context;
\* with 400 the store is unchanged and the cache has no entry for the id, in
\* that step and ever after.
C14_PostCreatesOrFails ==
  /\ [](\A id \in DOMAIN http :
         /\ http[id] \in {201, 400}
         /\ http[id] = 201 <=> id \in DOMAIN store
         /\ http[id] = 400 => id \notin DOMAIN cache)
  /\ [][http' # http =>
         \E id \in DOMAIN http' \ DOMAIN http :
           /\ DOMAIN http' = DOMAIN http \cup {id}
           /\ \A old \in DOMAIN http : http'[old] = http[old]
           /\ id \notin DOMAIN store \cup DOMAIN cache
           /\ \A c \in Conns : conn[c].currentSessionId # id
           /\ http'[id] = 201 =>
                /\ DOMAIN store' = DOMAIN store \cup {id}
                /\ \A old \in DOMAIN store : store'[old] = store[old]
                /\ store'[id].session_id = id
                /\ store'[id].status = "active"
                /\ store'[id].ended_at = Null
                /\ store'[id].transcription = Null
                /\ store'[id].agent_response = Null
                /\ id \in DOMAIN cache' /\ heap'[cache'[id]] = DefaultContext
           /\ http'[id] = 400 =>
                /\ store' = store /\ cache' = cache /\ heap' = heap]_vars

\* one request was answered with 400 and a later one with 201
C14_Witness ==
  \E bad, good \in DOMAIN http :
    /\ http[bad] = 400 /\ http[good] = 201
    /\ bad = Uuid(1) /\ good = Uuid(2)
    /\ store[good].status = "active" /\ Context(good) = DefaultContext

\* C15: in every reachable state each session record has status active or
\* completed, and its ended_at is null exactly when its status is active.
C15_StatusAndEndedAt ==
  [](\A id \in DOMAIN store :
       /\ store[id].status \in {"active", "completed"}
       /\ store[id].ended_at = Null <=> store[id].status = "active")

\* a session that had a turn recorded was completed by its close, while
\* another session is still active
C15_Witness ==
  \E id, other \in DOMAIN store :
    /\ store[id].status = "completed" /\ store[id].ended_at = Timestamp
    /\ store[id].transcription # Null
    /\ store[other].status = "active" /\ store[other].ended_at = Null

\* the handler of chunk h ends in this step, having heard a final transcript
\* on a connection whose session has a record
FinalEnds(h) ==
  /\ task[h].pc \notin {"idle", "done"} /\ task'[h].pc = "done"
  /\ HeardFinal(h)' /\ SessionExists(SidOf(h))

C17_OneTaskPerSession ==
  \A g, h \in Chunks :
    g # h /\ InFlight(g) /\ InFlight(h) => SidOf(g) # SidOf(h)

\* C18 (as claimed, its first part): in every context the map holds, the
\* assistant turn produced for a chunk stands immediately after that chunk's
\* user turn, with no other turn between them.
C18_ReplyFollowsUserTurn ==
  \A id \in DOMAIN cache : \A h \in Chunks :
    \A i \in 1..Len(Context(id)) :
      Context(id)[i] = Msg("assistant", Reply(h)) =>
        i > 1 /\ Context(id)[i - 1] = Msg("user", Utterance(h))

\* the handler of chunk h requests its completion in this step, and the
\* list it passes
CompletionRequested(h) == task[h].pc = "getAgent" /\ task'[h].pc = "completion"
Passed(h) == heap'[task'[h].messages]

\* the turns of chunk g stand in list l, the user turn before the reply
HasExchange(l, g) ==
  \E i, j \in 1..Len(l) :
    /\ i < j
    /\ l[i] = Msg("user", Utterance(g)) /\ l[j] = Msg("assistant", Reply(g))

\* C19 (as claimed): the list passed to the completion provider for a final
\* transcript starts with the system message, ends with the new user turn,
\* holds before it the context the map has for the session, and misses no
\* turn of an exchange of the session that succeeded earlier.
C19_FullContextPassed ==
  [][\A h \in Chunks :
       CompletionRequested(h) =>
         /\ Passed(h)[1] = Msg("system", SystemPrompt)
         /\ Last(Passed(h)) = Msg("user", Utterance(h))
         /\ SidOf(h) \in DOMAIN cache =>
              SubSeq(Passed(h), 1, Len(Passed(h)) - 1) = Context(SidOf(h))
         /\ \A g \in Chunks :
              Succeeded(g) /\ SidOf(g) = SidOf(h) => HasExchange(Passed(h), g)]_vars

\* the turn of chunk g failed at the completion, the voice configuration,
\* the synthesis or the store update
FailedInTurn(g) ==
  /\ Failed(g)
  /\ Errors(g)[1].text \in
       {"completion request failed", "No AI response generated",
        "No voice selected for agent", "Failed to synthesize speech",
        "database error", "Voice chat session not found"}

\* C20 (as claimed): the completion input of a chunk is what it would be had
\* an earlier chunk of the same connection whose turn failed never been
\* sent: it holds no user turn and no reply of such a chunk.
C20_FailedTurnLeavesNoTrace ==
  [][\A g, h \in Chunks :
       /\ g < h /\ task[g].conn = task[h].conn
       /\ FailedInTurn(g) /\ CompletionRequested(h)
       => \A i \in 1..Len(Passed(h)) :
            Passed(h)[i].content \notin {Utterance(g), Reply(g)}]_vars

\* the session id in the pathname of the connection chunk h arrived on
Owner(h) == SessionIdOf(conn[task[h].conn].urlParts)

\* the arrays and records of the session ids other than sid
OtherIds(sid) == (DOMAIN store \cup DOMAIN cache) \ {sid}

\* C21: a step of the handler of a chunk of one session id leaves the session
\* record of every other session id, its cache entry, the array cached under
\* it and the arrays held by the other sessions' handlers as they are, and
\* the array the handler works on is not one cached under another id.
C21_OtherSessionsUntouched ==
  [][\A h \in Chunks :
       task[h].pc \notin {"idle", "done"} /\ task'[h] # task[h]
       => /\ \A id \in OtherIds(Owner(h)) :
               /\ id \in DOMAIN store
                  => id \in DOMAIN store' /\ store'[id] = store[id]
               /\ id \in DOMAIN cache <=> id \in DOMAIN cache'
               /\ id \in DOMAIN cache
                  => /\ cache'[id] = cache[id]
                     /\ heap'[cache[id]] = heap[cache[id]]
                     /\ task'[h].messages # cache[id]
          /\ \A g \in Chunks :
               task[g].pc # "idle" /\ Owner(g) # Owner(h) /\ task[g].messages # 0
               => heap'[task[g].messages] = heap[task[g].messages]]_vars

\* chunks of both sessions were processed to the end of their turns, one
\* after its connection had closed, and each record carries its own chunk
C21_Witness ==
  \E h, g \in Chunks :
    /\ Succeeded(h) /\ Owner(h) = Uuid(1) /\ store[Uuid(1)].transcription = Utterance(h)
    /\ Succeeded(g) /\ Owner(g) = Uuid(2) /\ store[Uuid(2)].transcription = Utterance(g)
    /\ conn[2].state = "closed" /\ store[Uuid(2)].status = "completed"
    /\ conn[1].state = "open" /\ store[Uuid(1)].status = "active"

\* the handler of chunk h has ended with the three messages of its turn or
\* with an error message
Finished(h) ==
  task[h].pc = "done" /\ (task[h].sent = Turn(h) \/ Failed(h))

\* C22: whatever the calls made for one session do, never returning
\* included, every chunk that arrived for another session is eventually
\* processed to its end: its three messages or an error message.
C22_OthersFinish ==
  \A h \in Chunks :
    (task[h].pc # "idle" /\ Owner(h) # Uuid(1)) ~> Finished(h)

\* a chunk of the other session went through its whole turn while an earlier
\* chunk of the first session still waits for its completion
C22_Witness ==
  \E g, h \in Chunks :
    /\ g < h
    /\ task[g].pc = "completion" /\ Owner(g) = Uuid(1)
    /\ Succeeded(h) /\ Owner(h) = Uuid(2) /\ task[h].sent = Turn(h)

\* no call of the sequence was made twice
NoRepeat(calls) ==
  \A i, j \in 1..Len(calls) : calls[i] = calls[j] => i = j

\* the turn of chunk h ended with the audio message and the record update
EndedRecorded(h) ==
  /\ task[h].pc = "done" /\ ~Failed(h)
  /\ task[h].sent = Turn(h) /\ Last(task[h].calls) = "updateVoiceChatSession"

\* the turn of chunk h ended with one error message
EndedFailed(h) == task[h].pc = "done" /\ Len(Errors(h)) = 1

\* C23: when every call returns, the handler of every chunk ends; a turn
\* that waits for its completion or its synthesis ends with the audio message
\* and the record update or with one error message; a handler that has ended
\* takes no further step and no call is made twice for one chunk.
C23_EveryTurnEnds ==
  /\ \A h \in Chunks : task[h].pc # "idle" ~> task[h].pc = "done"
  /\ [][\A h \in Chunks :
          task'[h] # task[h]
          => /\ task[h].pc # "done" /\ NoRepeat(task'[h].calls)
             /\ task[h].pc \in {"completion", "synthesis", "update"}
                /\ task'[h].pc = "done"
                => (EndedRecorded(h) \/ EndedFailed(h))']_vars

\* one turn ended with the record update, another one failed at its
\* synthesis with one error message, and no handler is in flight
C23_Witness ==
  /\ \A h \in Chunks : task[h].pc \in {"idle", "done"}
  /\ \E g, h \in Chunks :
       /\ EndedRecorded(g)
       /\ EndedFailed(h) /\ Errors(h)[1].text = "Failed to synthesize speech"

\* a successful response whose body lacks the path
\* results.channels[0].alternatives[0].transcript at some level
AbsentPath(d) ==
  /\ d.ok
  /\ \/ d.results = "absent"
     \/ d.channels \in {"absent", "empty"}
     \/ d.alternatives \in {"absent", "empty"}
     \/ d.transcript = Null

\* C24 (as claimed): whenever the transcription request of a chunk resolves
\* with a successful response in which the path to the first alternative's
\* transcript is absent at any level, the handler ends without sending any
\* message, an error message included.
C24_AbsentPathDropped ==
  [][\A h \in Chunks :
       task[h].pc = "deepgram" /\ task'[h].pc # "deepgram"
       => \A d \in DeepgramResponses(h) :
            AbsentPath(d) /\ DeepgramReturn(h, d) => Silent(h)']_vars

\* C25: the step that closes a connection removes the cache entry of its
\* session id before the outcome of the update is known; the step in which
\* that update fails changes nothing but the fate of the update: no record,
\* no cache entry, no array, no handler (so no message is sent) and no other
\* connection changes; and a failed update is not issued again.
C25_CloseFailureSwallowed ==
  [][\A c \in Conns :
       /\ conn[c].state = "open" /\ conn'[c].state = "closed"
          => conn[c].currentSessionId \notin DOMAIN cache'
       /\ conn[c].closeUpdate = "pending" /\ conn'[c].closeUpdate = "rejected"
          => /\ conn' = [conn EXCEPT ![c].closeUpdate = "rejected"]
             /\ UNCHANGED <<store, agents, http, cache, heap, task>>
       /\ conn[c].closeUpdate = "rejected" => conn'[c] = conn[c]]_vars

\* the update of a closed connection failed while the session record exists:
\* the record is still active, the entry created with the session is gone,
\* another connection is open and no handler has sent an error message
C25_Witness ==
  \E c \in Conns :
    /\ conn[c].state = "closed" /\ conn[c].closeUpdate = "rejected"
    /\ SessionExists(conn[c].currentSessionId)
    /\ store[conn[c].currentSessionId].status = "active"
    /\ conn[c].currentSessionId \notin DOMAIN cache
    /\ \E b \in Conns : conn[b].state = "open"
    /\ \A h \in Chunks : ~Failed(h)

\* C26 (as claimed): a session record whose status is completed is never
\* written again: no step changes its transcription, agent_response, status
\* or ended_at.
C26_CompletedIsFinal ==
  [][\A id \in DOMAIN store :
       store[id].status = "completed"
       => /\ store'[id].transcription = store[id].transcription
          /\ store'[id].agent_response = store[id].agent_response
          /\ store'[id].status = store[id].status
          /\ store'[id].ended_at = store[id].ended_at]_vars

\* the reply of chunk h was sent before the reply of chunk g: the assistant
\* turn is pushed onto the context in the stretch of code that sends the
\* response message (routes.ts:133-140), so the order of the replies in an
\* array is the order in which their response messages went out
RepliedBefore(h, g) ==
  \E ref \in DOMAIN heap :
    \E i, j \in 1..Len(heap[ref]) :
      /\ i < j
      /\ heap[ref][i] = Msg("assistant", Reply(h))
      /\ heap[ref][j] = Msg("assistant", Reply(g))

\* C27 (as claimed): on one connection the response of a later chunk is never
\* sent before the response of an earlier chunk whose turn succeeds.
C27_RepliesInArrivalOrder ==
  \A g, h \in Chunks :
    /\ g < h /\ Succeeded(g) /\ task[h].conn = task[g].conn
    => ~RepliedBefore(h, g)

\* the PATCH request p was answered 200
Patched(p) == patch[p].pc = "done" /\ patch[p].status = 200

\* C28 (as claimed): when two PATCH requests for one agent that name
\* disjoint fields have both been answered 200, and no other request for
\* that agent was made, the agent's row carries the values of both bodies.
C28_BothPatchesTakeEffect ==
  \A p, q \in Patches :
    /\ p # q /\ Patched(p) /\ Patched(q)
    /\ patch[p].id = patch[q].id
    /\ DOMAIN patch[p].body \cap DOMAIN patch[q].body = {}
    /\ \A o \in Patches \ {p, q} : patch[o].id # patch[p].id
    => \A r \in {p, q} : \A col \in DOMAIN patch[r].body :
         agents[patch[p].id][col] = patch[r].body[col]

\* C29 (as claimed): a crawl request that created a record and has
\* responded left the record completed, answered 201 and created a knowledge
\* document, or left it failed, answered 400 with the crawlId and created no
\* knowledge document.
C29_CrawlRecordSettled ==
  \A k \in Crawls :
    crawlReq[k].pc = "done" /\ crawlReq[k].crawlId # 0
    => LET r == crawlReq[k]
           row == crawls[r.crawlId]
       IN \/ row.status = "completed" /\ r.status = 201 /\ r.document # 0
          \/ /\ row.status = "failed" /\ r.status = 400
             /\ r.carries = r.crawlId /\ r.document = 0

\* the dialog state without the counts of calls made and streams obtained,
\* which no handler and no button of the dialog depends on
Shown(s) == [s EXCEPT !.calls = 0, !.streams = 0]

\* the dialog states that sequences of user actions lead to from the states
\* of S (with at most MaxRequests calls pending at a time)
RECURSIVE ReachableFrom(_)
ReachableFrom(S) ==
  LET T == S \cup {Shown(t) : t \in {u \in UNION {DialogSteps(s) : s \in S} :
                                       u.pending <= MaxRequests}}
  IN IF T = S THEN S ELSE ReachableFrom(T)

\* C30 (as claimed): from every state of the dialog in which chatStatus is
\* error, some sequence of user actions inside the dialog leads to a state in
\* which chatStatus is recording.
C30_ErrorRecoverable ==
  dialog.chatStatus = "error"
  => \E s \in ReachableFrom({Shown(dialog)}) : s.chatStatus = "recording"

====
